---- MODULE Spec2Model ----
(***************************************************************************)
(* Model of modules/consensus/database.go: the bolt-backed consensus set   *)
(* database.  The store is a map from bucket names to buckets (maps from    *)
(* keys to encoded values).  Every accessor of database.go takes a bolt.Tx; *)
(* the model keeps the committed store (db) and the working copy of the     *)
(* open transaction (tx).  A Go panic ends the process: the transaction is  *)
(* never committed.                                                          *)
(***************************************************************************)
EXTENDS Integers, Sequences, FiniteSets, TLC

VARIABLES DEBUG, blockRoot, db, tx, txState, txCalls, last

vars == <<DEBUG, blockRoot, db, tx, txState, txCalls, last>>

(***************************************************************************)
(* Bounds of the model.                                                     *)
(***************************************************************************)
MaxHeight == 3
MaxUnderflow == 2
MaxID == 2
MaxMaturity == 1
MaxBlockID == 1
MaxTxCalls == 3

(***************************************************************************)
(* Bucket names (database.go:33-58).  A name is a byte string; the two     *)
(* prefixed families are the prefix followed by an encoded height.          *)
(***************************************************************************)
prefix_dsco == <<"dsco_">>
prefix_fcex == <<"fcex_">>
BlockHeight == <<"BlockHeight">>
BlockPath == <<"BlockPath">>
BlockMap == <<"BlockMap">>
SiacoinOutputs == <<"SiacoinOutputs">>
FileContracts == <<"FileContracts">>
FileContractExpirations == <<"FileContractExpirations">>
SiafundOutputs == <<"SiafundOutputs">>
SiafundPool == <<"SiafundPool">>

(***************************************************************************)
(* Encoding.  A uint64 (types.BlockHeight) is 8 little-endian bytes.       *)
(***************************************************************************)
RECURSIVE LEBytes(_, _)
LEBytes(n, k) == IF k = 0 THEN << >> ELSE <<n % 256>> \o LEBytes(n \div 256, k - 1)

EncUint64(n) == LEBytes(n, 8)

\* encoding.Marshal of a types.BlockHeight
MarshalHeight(h) == EncUint64(h)

RECURSIVE LEValueFrom(_, _)
LEValueFrom(bytes, i) ==
    IF i > Len(bytes) THEN 0 ELSE bytes[i] + 256 * LEValueFrom(bytes, i + 1)

LEValue(bytes) == LEValueFrom(bytes, 1)

\* encoding.Unmarshal of 8 bytes into a Go int (two's complement, 64 bit)
DecInt(bytes) ==
    IF bytes[8] >= 128
    THEN -(LEValue([i \in 1..8 |-> 255 - bytes[i]])) - 1
    ELSE LEValue(bytes)

\* Marshal(Unmarshal(bytes) + 1) on a uint64: wraps at 2^64
RECURSIVE IncBytes(_)
IncBytes(bytes) ==
    IF bytes = << >> THEN << >>
    ELSE IF Head(bytes) = 255 THEN <<0>> \o IncBytes(Tail(bytes))
    ELSE <<Head(bytes) + 1>> \o Tail(bytes)

\* Marshal(Unmarshal(bytes) - 1) on a uint64: wraps below 0
RECURSIVE DecBytes(_)
DecBytes(bytes) ==
    IF bytes = << >> THEN << >>
    ELSE IF Head(bytes) = 0 THEN <<255>> \o DecBytes(Tail(bytes))
    ELSE <<Head(bytes) - 1>> \o Tail(bytes)

(***************************************************************************)
(* bolt: a transaction context is the working store and whether the        *)
(* process is still running (ok = FALSE after a panic).  Calling a method   *)
(* on a nil *bolt.Bucket dereferences nil and panics.                       *)
(***************************************************************************)
Ctx(s) == [s |-> s, ok |-> TRUE]

Panic(t) == [t EXCEPT !.ok = FALSE]

HasBucket(t, name) == name \in DOMAIN t.s

HasKey(t, name, k) == name \in DOMAIN t.s /\ k \in DOMAIN t.s[name]

BucketPut(t, name, k, v) ==
    IF ~t.ok THEN t
    ELSE IF ~HasBucket(t, name) THEN Panic(t)
    ELSE [t EXCEPT !.s[name] = (k :> v) @@ @]

BucketDelete(t, name, k) ==
    IF ~t.ok THEN t
    ELSE IF ~HasBucket(t, name) THEN Panic(t)
    ELSE [t EXCEPT !.s[name] = [x \in (DOMAIN @) \ {k} |-> @[x]]]

CreateBucketIfNotExists(t, name) ==
    IF ~t.ok \/ HasBucket(t, name) THEN t
    ELSE [t EXCEPT !.s = (name :> << >>) @@ @]

(***************************************************************************)
(* Chain index (database.go:149-261).                                       *)
(***************************************************************************)
\* The bytes stored under the height key; unmarshalling nil fails, which
\* panics under DEBUG and otherwise leaves the zero value.
HeightBytes(t) ==
    IF HasKey(t, BlockHeight, BlockHeight) THEN t.s[BlockHeight][BlockHeight] ELSE EncUint64(0)

HeightReadPanics(t) ==
    \/ ~HasBucket(t, BlockHeight)
    \/ DEBUG /\ ~HasKey(t, BlockHeight, BlockHeight)

blockHeightPanics(s) ==
    \/ HeightReadPanics(Ctx(s))
    \/ DecInt(HeightBytes(Ctx(s))) < 0

blockHeight(s) == DecInt(HeightBytes(Ctx(s)))

pushPath(t, bid) ==
    IF ~t.ok THEN t
    ELSE IF HeightReadPanics(t) THEN Panic(t)
    ELSE LET newHeightBytes == IncBytes(HeightBytes(t))
             t1 == BucketPut(t, BlockHeight, BlockHeight, newHeightBytes)
         IN  BucketPut(t1, BlockPath, newHeightBytes, bid)

\* faulty variant: the entry at the new height is deleted instead of the
\* entry at the old height
popPath_DeletesNewHeight(t) ==
    IF ~t.ok THEN t
    ELSE IF HeightReadPanics(t) THEN Panic(t)
    ELSE LET oldHeightBytes == HeightBytes(t)
             newHeightBytes == DecBytes(oldHeightBytes)
             t1 == BucketPut(t, BlockHeight, BlockHeight, newHeightBytes)
         IN  BucketDelete(t1, BlockPath, newHeightBytes)

\* faulty variant: the record of the popped block is deleted with its
\* path entry
popPath_DeletesBlock(t) ==
    IF ~t.ok THEN t
    ELSE IF HeightReadPanics(t) THEN Panic(t)
    ELSE LET oldHeightBytes == HeightBytes(t)
             newHeightBytes == DecBytes(oldHeightBytes)
             t1 == BucketPut(t, BlockHeight, BlockHeight, newHeightBytes)
             t2 == IF HasKey(t1, BlockPath, oldHeightBytes)
                   THEN BucketDelete(t1, BlockMap, t1.s[BlockPath][oldHeightBytes])
                   ELSE t1
         IN  BucketDelete(t2, BlockPath, oldHeightBytes)

popPath(t) ==
    IF ~t.ok THEN t
    ELSE IF HeightReadPanics(t) THEN Panic(t)
    ELSE LET oldHeightBytes == HeightBytes(t)
             newHeightBytes == DecBytes(oldHeightBytes)
             t1 == BucketPut(t, BlockHeight, BlockHeight, newHeightBytes)
         IN  BucketDelete(t1, BlockPath, oldHeightBytes)

(***************************************************************************)
(* Records of package types and their encodings.  A Currency is a length-  *)
(* prefixed big-endian integer, hashes and ids are fixed-size arrays that   *)
(* encode as themselves, a struct is the concatenation of its fields.       *)
(***************************************************************************)
RECURSIVE BEBytes(_)
BEBytes(n) == IF n = 0 THEN << >> ELSE BEBytes(n \div 256) \o <<n % 256>>

RECURSIVE BEValue(_)
BEValue(bytes) ==
    IF bytes = << >> THEN 0
    ELSE 256 * BEValue(SubSeq(bytes, 1, Len(bytes) - 1)) + bytes[Len(bytes)]

MarshalCurrency(c) == EncUint64(Len(BEBytes(c))) \o BEBytes(c)

\* decoding fails when the input is shorter than its length prefix says
CurrencyDecodes(bytes) == Len(bytes) >= 8 /\ Len(bytes) >= 8 + LEValue(SubSeq(bytes, 1, 8))

UnmarshalCurrency(bytes) == BEValue(SubSeq(bytes, 9, 8 + LEValue(SubSeq(bytes, 1, 8))))

BlankUnlockHash == 0

ZeroSiacoinOutput == [Value |-> 0, UnlockHash |-> BlankUnlockHash]

MarshalSiacoinOutput(sco) == MarshalCurrency(sco.Value) \o <<sco.UnlockHash>>

SiacoinOutputDecodes(bytes) ==
    CurrencyDecodes(bytes) /\ Len(bytes) = 8 + LEValue(SubSeq(bytes, 1, 8)) + 1

UnmarshalSiacoinOutput(bytes) ==
    [Value |-> UnmarshalCurrency(bytes), UnlockHash |-> bytes[Len(bytes)]]

ZeroSiafundOutput == [Value |-> 0, UnlockHash |-> BlankUnlockHash, ClaimStart |-> 0]

MarshalSiafundOutput(sfo) ==
    MarshalCurrency(sfo.Value) \o <<sfo.UnlockHash>> \o MarshalCurrency(sfo.ClaimStart)

SiafundOutputDecodes(bytes) ==
    /\ CurrencyDecodes(bytes)
    /\ LET n == 8 + LEValue(SubSeq(bytes, 1, 8)) + 1
       IN  /\ Len(bytes) >= n
           /\ CurrencyDecodes(SubSeq(bytes, n + 1, Len(bytes)))
           /\ Len(bytes) = n + 8 + LEValue(SubSeq(bytes, n + 1, n + 8))

UnmarshalSiafundOutput(bytes) ==
    LET n == 8 + LEValue(SubSeq(bytes, 1, 8)) + 1
    IN  [Value |-> UnmarshalCurrency(bytes),
         UnlockHash |-> bytes[n],
         ClaimStart |-> UnmarshalCurrency(SubSeq(bytes, n + 1, Len(bytes)))]

ZeroHash == [i \in 1..32 |-> 0]

\* FileSize (0-8), FileMerkleRoot (8-40), WindowStart (40-48), WindowEnd
\* (48-56), then the payout.
MarshalFileContract(fc) ==
    EncUint64(fc.FileSize) \o fc.FileMerkleRoot \o EncUint64(fc.WindowStart)
        \o EncUint64(fc.WindowEnd) \o MarshalCurrency(fc.Payout)

FileContractDecodes(bytes) ==
    Len(bytes) >= 56 /\ CurrencyDecodes(SubSeq(bytes, 57, Len(bytes)))

\* the window end field of an encoded file contract
WindowEndOf(bytes) == LEValue(SubSeq(bytes, 49, 56))

UnmarshalFileContract(bytes) ==
    [FileSize |-> LEValue(SubSeq(bytes, 1, 8)),
     FileMerkleRoot |-> SubSeq(bytes, 9, 40),
     WindowStart |-> LEValue(SubSeq(bytes, 41, 48)),
     WindowEnd |-> WindowEndOf(bytes),
     Payout |-> UnmarshalCurrency(SubSeq(bytes, 57, Len(bytes)))]

ZeroFileContract ==
    [FileSize |-> 0, FileMerkleRoot |-> ZeroHash, WindowStart |-> 0, WindowEnd |-> 0, Payout |-> 0]

\* types.Block.ID: the hash of the block, injective on the modelled blocks
BlockID(b) == b.Nonce

MarshalProcessedBlock(pb) == <<pb.Block.Nonce, pb.SiafundOutputDiffs, pb.ConsensusSetHash>>

UnmarshalProcessedBlock(bytes) ==
    [Block |-> [Nonce |-> bytes[1]], SiafundOutputDiffs |-> bytes[2], ConsensusSetHash |-> bytes[3]]

(***************************************************************************)
(* The genesis block held by the ConsensusSet (cs.blockRoot).               *)
(***************************************************************************)
GenesisID == 0
GenesisMinerPayoutID == 1
Coinbase0 == 300

GenesisSiafundOutputDiffs ==
    << [Direction |-> "apply", ID |-> 1,
        SiafundOutput |-> [Value |-> 7, UnlockHash |-> 3, ClaimStart |-> 0]],
       [Direction |-> "apply", ID |-> 2,
        SiafundOutput |-> [Value |-> 3, UnlockHash |-> 4, ClaimStart |-> 0]] >>

GenesisRoot ==
    [Block |-> [Nonce |-> GenesisID],
     SiafundOutputDiffs |-> GenesisSiafundOutputDiffs,
     ConsensusSetHash |-> 0]

\* types.CalculateCoinbase
CalculateCoinbase(h) == IF Coinbase0 - h > 30 THEN Coinbase0 - h ELSE 30

\* types.Block.MinerPayoutID(0) of the genesis block
MinerPayoutID(b) == IF b.Nonce = GenesisID THEN GenesisMinerPayoutID ELSE MaxID + 1 + b.Nonce

(***************************************************************************)
(* Block map (database.go:177-201).                                         *)
(***************************************************************************)
getBlockMap(s, id) ==
    IF BlockMap \notin DOMAIN s THEN [pb |-> GenesisRoot, err |-> "panic"]
    ELSE IF id \notin DOMAIN s[BlockMap] THEN [pb |-> GenesisRoot, err |-> "errNilItem"]
    ELSE [pb |-> UnmarshalProcessedBlock(s[BlockMap][id]), err |-> "nil"]

addBlockMap(t, pb) == BucketPut(t, BlockMap, BlockID(pb.Block), MarshalProcessedBlock(pb))

getPath(s, height) ==
    IF BlockPath \notin DOMAIN s THEN [id |-> 0, err |-> "panic"]
    ELSE IF MarshalHeight(height) \notin DOMAIN s[BlockPath]
         THEN [id |-> 0, err |-> IF DEBUG THEN "panic" ELSE "nil"]
    ELSE [id |-> s[BlockPath][MarshalHeight(height)], err |-> "nil"]

(***************************************************************************)
(* Siacoin outputs (database.go:263-312).                                   *)
(***************************************************************************)
isSiacoinOutput(s, id) == HasKey(Ctx(s), SiacoinOutputs, id)

getSiacoinOutput(s, id) ==
    IF SiacoinOutputs \notin DOMAIN s THEN [sco |-> ZeroSiacoinOutput, err |-> "panic"]
    ELSE IF id \notin DOMAIN s[SiacoinOutputs] THEN [sco |-> ZeroSiacoinOutput, err |-> "errNilItem"]
    ELSE IF ~SiacoinOutputDecodes(s[SiacoinOutputs][id]) THEN [sco |-> ZeroSiacoinOutput, err |-> "decode"]
    ELSE [sco |-> UnmarshalSiacoinOutput(s[SiacoinOutputs][id]), err |-> "nil"]

addSiacoinOutput(t, id, sco) ==
    IF ~t.ok THEN t
    ELSE IF DEBUG /\ (~HasBucket(t, SiacoinOutputs) \/ HasKey(t, SiacoinOutputs, id)) THEN Panic(t)
    ELSE BucketPut(t, SiacoinOutputs, id, MarshalSiacoinOutput(sco))

\* faulty variant: the sanity check is made but the item is never deleted
removeSiacoinOutput_NoDelete(t, id) ==
    IF ~t.ok THEN t
    ELSE IF DEBUG /\ ~HasKey(t, SiacoinOutputs, id) THEN Panic(t)
    ELSE IF ~HasBucket(t, SiacoinOutputs) THEN Panic(t)
    ELSE t

removeSiacoinOutput(t, id) ==
    IF ~t.ok THEN t
    ELSE IF DEBUG /\ ~HasKey(t, SiacoinOutputs, id) THEN Panic(t)
    ELSE BucketDelete(t, SiacoinOutputs, id)

(***************************************************************************)
(* File contracts and their expiration index (database.go:314-382).         *)
(***************************************************************************)
getFileContract(s, id) ==
    IF FileContracts \notin DOMAIN s THEN [fc |-> ZeroFileContract, err |-> "panic"]
    ELSE IF id \notin DOMAIN s[FileContracts] THEN [fc |-> ZeroFileContract, err |-> "errNilItem"]
    ELSE IF ~FileContractDecodes(s[FileContracts][id]) THEN [fc |-> ZeroFileContract, err |-> "decode"]
    ELSE [fc |-> UnmarshalFileContract(s[FileContracts][id]), err |-> "nil"]

addFileContract(t, id, fc) ==
    IF ~t.ok THEN t
    ELSE IF DEBUG /\ (~HasBucket(t, FileContracts) \/ HasKey(t, FileContracts, id)) THEN Panic(t)
    ELSE LET t1 == BucketPut(t, FileContracts, id, MarshalFileContract(fc))
             expirationBucketID == prefix_fcex \o MarshalHeight(fc.WindowEnd)
             t2 == CreateBucketIfNotExists(t1, expirationBucketID)
         IN  BucketPut(t2, expirationBucketID, id, << >>)

\* faulty variant: the bucket is derived from bytes 40-48, the window start
ExpirationBucketIDOf_WindowStart(fcBytes) == prefix_fcex \o SubSeq(fcBytes, 41, 48)

\* fcBytes[48:56] of the stored record names the expiration bucket
ExpirationBucketIDOf(fcBytes) == prefix_fcex \o SubSeq(fcBytes, 49, 56)

\* faulty variant: a missing marker is fatal only with the debug checks
removeFileContract_DebugMarkerCheck(t, id) ==
    IF ~t.ok THEN t
    ELSE IF ~HasBucket(t, FileContracts) THEN Panic(t)
    ELSE IF DEBUG /\ ~HasKey(t, FileContracts, id) THEN Panic(t)
    ELSE IF ~HasKey(t, FileContracts, id) THEN Panic(BucketDelete(t, FileContracts, id))
    ELSE LET fcBytes == t.s[FileContracts][id]
             t1 == BucketDelete(t, FileContracts, id)
             expirationBucketID == ExpirationBucketIDOf(fcBytes)
         IN  IF ~HasBucket(t1, expirationBucketID) THEN Panic(t1)
             ELSE IF DEBUG /\ ~HasKey(t1, expirationBucketID, id) THEN Panic(t1)
             ELSE BucketDelete(t1, expirationBucketID, id)

removeFileContract(t, id) ==
    IF ~t.ok THEN t
    ELSE IF ~HasBucket(t, FileContracts) THEN Panic(t)
    ELSE IF DEBUG /\ ~HasKey(t, FileContracts, id) THEN Panic(t)
    \* without DEBUG the delete of the absent key is a no-op and slicing
    \* the nil fcBytes[48:56] panics
    ELSE IF ~HasKey(t, FileContracts, id) THEN Panic(BucketDelete(t, FileContracts, id))
    ELSE LET fcBytes == t.s[FileContracts][id]
             t1 == BucketDelete(t, FileContracts, id)
             expirationBucketID == ExpirationBucketIDOf(fcBytes)
         IN  IF ~HasKey(t1, expirationBucketID, id) THEN Panic(t1)
             ELSE BucketDelete(t1, expirationBucketID, id)

(***************************************************************************)
(* Siafund outputs and pool (database.go:384-432, 520-533, 652-663).        *)
(***************************************************************************)
\* faulty variant: with the debug checks a missing item panics as well
getItem_DebugPanicsOnNilItem(s, bucket, key) ==
    IF bucket \notin DOMAIN s THEN [item |-> << >>, err |-> "panic"]
    ELSE IF key \notin DOMAIN s[bucket]
         THEN [item |-> << >>, err |-> IF DEBUG THEN "panic" ELSE "errNilItem"]
    ELSE [item |-> s[bucket][key], err |-> "nil"]

getItem(s, bucket, key) ==
    IF bucket \notin DOMAIN s THEN [item |-> << >>, err |-> "panic"]
    ELSE IF key \notin DOMAIN s[bucket] THEN [item |-> << >>, err |-> "errNilItem"]
    ELSE [item |-> s[bucket][key], err |-> "nil"]

getSiafundOutput(s, id) ==
    LET r == getItem(s, SiafundOutputs, id)
    IN  IF r.err # "nil" THEN [sfo |-> ZeroSiafundOutput, err |-> r.err]
        ELSE IF ~SiafundOutputDecodes(r.item) THEN [sfo |-> ZeroSiafundOutput, err |-> "decode"]
        ELSE [sfo |-> UnmarshalSiafundOutput(r.item), err |-> "nil"]

\* faulty variant: the sanity check for an existing item is missing
addSiafundOutput_NoCheck(t, id, sfo) ==
    IF ~t.ok THEN t
    ELSE BucketPut(t, SiafundOutputs, id, MarshalSiafundOutput(sfo))

addSiafundOutput(t, id, sfo) ==
    IF ~t.ok THEN t
    ELSE IF DEBUG /\ (~HasBucket(t, SiafundOutputs) \/ HasKey(t, SiafundOutputs, id)) THEN Panic(t)
    ELSE BucketPut(t, SiafundOutputs, id, MarshalSiafundOutput(sfo))

removeSiafundOutput(t, id) ==
    IF ~t.ok THEN t
    ELSE IF DEBUG /\ ~HasKey(t, SiafundOutputs, id) THEN Panic(t)
    ELSE BucketDelete(t, SiafundOutputs, id)

getSiafundPool(s) ==
    IF SiafundPool \notin DOMAIN s THEN [pool |-> 0, err |-> "panic"]
    ELSE IF SiafundPool \notin DOMAIN s[SiafundPool]
         THEN [pool |-> 0, err |-> IF DEBUG THEN "panic" ELSE "nil"]
    ELSE [pool |-> UnmarshalCurrency(s[SiafundPool][SiafundPool]), err |-> "nil"]

setSiafundPool(t, c) == BucketPut(t, SiafundPool, SiafundPool, MarshalCurrency(c))

(***************************************************************************)
(* Delayed siacoin outputs (database.go:434-513).                           *)
(***************************************************************************)
\* faulty variant: the delayed output is put into the siacoin output set
\* as well
addDSCO_AlsoSiacoinOutput(t, bh, id, sco) ==
    IF ~t.ok THEN t
    ELSE IF DEBUG /\ (~HasBucket(t, SiacoinOutputs) \/ HasKey(t, SiacoinOutputs, id)) THEN Panic(t)
    ELSE LET dscoBucketID == prefix_dsco \o EncUint64(bh)
         IN  IF DEBUG /\ (~HasBucket(t, dscoBucketID) \/ HasKey(t, dscoBucketID, id)) THEN Panic(t)
             ELSE BucketPut(BucketPut(t, dscoBucketID, id, MarshalSiacoinOutput(sco)),
                            SiacoinOutputs, id, MarshalSiacoinOutput(sco))

addDSCO(t, bh, id, sco) ==
    IF ~t.ok THEN t
    ELSE IF DEBUG /\ (~HasBucket(t, SiacoinOutputs) \/ HasKey(t, SiacoinOutputs, id)) THEN Panic(t)
    ELSE LET dscoBucketID == prefix_dsco \o EncUint64(bh)
         IN  IF DEBUG /\ (~HasBucket(t, dscoBucketID) \/ HasKey(t, dscoBucketID, id)) THEN Panic(t)
             ELSE BucketPut(t, dscoBucketID, id, MarshalSiacoinOutput(sco))

\* faulty variant: with the debug checks a missing item panics
removeDSCO_PanicsOnNil(t, bh, id) ==
    LET bucketID == prefix_dsco \o MarshalHeight(bh)
    IN  IF t.ok /\ DEBUG /\ ~HasKey(t, bucketID, id) THEN Panic(t)
        ELSE BucketDelete(t, bucketID, id)

removeDSCO(t, bh, id) ==
    LET bucketID == prefix_dsco \o MarshalHeight(bh)
    IN  BucketDelete(t, bucketID, id)

\* faulty variant: an existing bucket is accepted as it is
createDSCOBucket_IfNotExists(t, bh) ==
    LET bucketID == prefix_dsco \o MarshalHeight(bh)
    IN  IF ~t.ok THEN t
        ELSE IF HasBucket(t, bucketID) THEN t
        ELSE [t EXCEPT !.s = (bucketID :> << >>) @@ @]

createDSCOBucket(t, bh) ==
    LET bucketID == prefix_dsco \o MarshalHeight(bh)
    IN  IF ~t.ok THEN t
        ELSE IF HasBucket(t, bucketID) THEN (IF DEBUG THEN Panic(t) ELSE t)
        ELSE [t EXCEPT !.s = (bucketID :> << >>) @@ @]

\* faulty variant: a missing bucket is never reported
deleteDSCOBucket_NoCheck(t, h) ==
    LET bucketID == prefix_dsco \o MarshalHeight(h)
    IN  IF ~t.ok THEN t
        ELSE IF ~HasBucket(t, bucketID) THEN t
        ELSE [t EXCEPT !.s = [n \in (DOMAIN @) \ {bucketID} |-> @[n]]]

deleteDSCOBucket(t, h) ==
    LET bucketID == prefix_dsco \o MarshalHeight(h)
    IN  IF ~t.ok THEN t
        ELSE IF ~HasBucket(t, bucketID) THEN (IF DEBUG THEN Panic(t) ELSE t)
        ELSE [t EXCEPT !.s = [n \in (DOMAIN @) \ {bucketID} |-> @[n]]]

\* bolt iterates a bucket in key order; the result is the sequence of calls
\* made to fn, or the first decode error.
RECURSIVE SortedKeys(_)
SortedKeys(S) ==
    IF S = {} THEN << >>
    ELSE LET m == CHOOSE x \in S : \A y \in S : x <= y
         IN  <<m>> \o SortedKeys(S \ {m})

\* faulty variant: the iteration stops after the first entry
forEachDSCO_StopsEarly(s, bh) ==
    LET bucketID == prefix_dsco \o MarshalHeight(bh)
    IN  IF bucketID \notin DOMAIN s THEN [visits |-> << >>, err |-> "panic"]
        ELSE LET keys == SortedKeys(DOMAIN s[bucketID])
                 n == IF Len(keys) > 1 THEN 1 ELSE Len(keys)
             IN  [visits |-> [i \in 1..n |->
                                <<keys[i], UnmarshalSiacoinOutput(s[bucketID][keys[i]])>>],
                  err |-> "nil"]

forEachDSCO(s, bh) ==
    LET bucketID == prefix_dsco \o MarshalHeight(bh)
    IN  IF bucketID \notin DOMAIN s THEN [visits |-> << >>, err |-> "panic"]
        ELSE LET keys == SortedKeys(DOMAIN s[bucketID])
                 bad == {i \in 1..Len(keys) : ~SiacoinOutputDecodes(s[bucketID][keys[i]])}
                 n == IF bad = {} THEN Len(keys)
                      ELSE (CHOOSE i \in bad : \A j \in bad : i <= j) - 1
             IN  [visits |-> [i \in 1..n |->
                                <<keys[i], UnmarshalSiacoinOutput(s[bucketID][keys[i]])>>],
                  err |-> IF bad = {} THEN "nil" ELSE "decode"]

(***************************************************************************)
(* Initialisation (database.go:79-147).                                     *)
(***************************************************************************)
\* faulty variant: the stored pool value is taken as the sign of initialisation
dbInitialized_NonZeroPool(s) ==
    /\ SiafundPool \in DOMAIN s
    /\ SiafundPool \in DOMAIN s[SiafundPool]
    /\ s[SiafundPool][SiafundPool] # MarshalCurrency(0)

dbInitialized(s) == SiafundPool \in DOMAIN s

\* diffs.go: a diff applied in its own direction adds the output
commitSiafundOutputDiff(t, sfod) ==
    IF sfod.Direction = "apply" THEN addSiafundOutput(t, sfod.ID, sfod.SiafundOutput)
    ELSE removeSiafundOutput(t, sfod.ID)

\* consensusChecksum: a digest of the whole store, never the blank hash
RECURSIVE CountKeys(_, _)
CountKeys(s, names) ==
    IF names = {} THEN 0
    ELSE LET n == CHOOSE x \in names : TRUE
         IN  Cardinality(DOMAIN s[n]) + CountKeys(s, names \ {n})

consensusChecksum(t) == 1 + CountKeys(t.s, DOMAIN t.s)

RECURSIVE CreateBuckets(_, _)
CreateBuckets(t, buckets) ==
    IF buckets = << >> THEN t
    ELSE CreateBuckets(CreateBucketIfNotExists(t, Head(buckets)), Tail(buckets))

RECURSIVE CommitDiffs(_, _)
CommitDiffs(t, diffs) ==
    IF diffs = << >> THEN t
    ELSE CommitDiffs(commitSiafundOutputDiff(t, Head(diffs)), Tail(diffs))

\* the value of cs.blockRoot when initDB returns
initDBRoot(t, root) ==
    IF DEBUG /\ t.ok THEN [root EXCEPT !.ConsensusSetHash = consensusChecksum(t)] ELSE root

\* faulty variant: the height counter starts at 0 instead of -1
initDBBeforeChecksum_HeightZero(t, root) ==
    LET t1 == CreateBuckets(t, <<BlockPath, BlockMap, SiacoinOutputs, FileContracts,
                                 FileContractExpirations, SiafundOutputs, SiafundPool,
                                 BlockHeight>>)
        t2 == BucketPut(t1, BlockHeight, BlockHeight, EncUint64(0))
        t3 == addBlockMap(t2, root)
        t4 == pushPath(t3, BlockID(root.Block))
        t5 == setSiafundPool(t4, 0)
        t6 == CommitDiffs(t5, root.SiafundOutputDiffs)
    IN  addSiacoinOutput(t6, MinerPayoutID(root.Block),
                         [Value |-> CalculateCoinbase(0), UnlockHash |-> BlankUnlockHash])

initDBBeforeChecksum(t, root) ==
    LET t1 == CreateBuckets(t, <<BlockPath, BlockMap, SiacoinOutputs, FileContracts,
                                 FileContractExpirations, SiafundOutputs, SiafundPool,
                                 BlockHeight>>)
        t2 == BucketPut(t1, BlockHeight, BlockHeight, DecBytes(EncUint64(0)))
        t3 == addBlockMap(t2, root)
        t4 == pushPath(t3, BlockID(root.Block))
        t5 == setSiafundPool(t4, 0)
        t6 == CommitDiffs(t5, root.SiafundOutputDiffs)
    IN  addSiacoinOutput(t6, MinerPayoutID(root.Block),
                         [Value |-> CalculateCoinbase(0), UnlockHash |-> BlankUnlockHash])

initDB(t, root) ==
    LET t7 == initDBBeforeChecksum(t, root)
    IN  addBlockMap(t7, initDBRoot(t7, root))

(***************************************************************************)
(* Inputs of the operations.                                                *)
(***************************************************************************)
IDs == 1..MaxID
BlockIDs == 0..MaxBlockID
SiacoinOutputValues ==
    {[Value |-> 1, UnlockHash |-> 2], [Value |-> 2, UnlockHash |-> 1]}
SiafundOutputValues ==
    {[Value |-> 1, UnlockHash |-> 2, ClaimStart |-> 3], [Value |-> 2, UnlockHash |-> 1, ClaimStart |-> 0]}
FileContractValues ==
    {[FileSize |-> 5, FileMerkleRoot |-> ZeroHash, WindowStart |-> we - 1, WindowEnd |-> we,
      Payout |-> 10] : we \in {99, 100}}
ProcessedBlocks ==
    {[Block |-> [Nonce |-> n], SiafundOutputDiffs |-> << >>, ConsensusSetHash |-> h] :
        n \in BlockIDs, h \in {0, 1}}
MaturityHeights == 0..MaxMaturity
Pools == {0, 5}

(***************************************************************************)
(* The state machine.  One process opens the database, runs one            *)
(* transaction at a time and commits it or rolls it back; a panic kills the *)
(* process and the next one starts from the committed store.                *)
(***************************************************************************)
Init ==
    /\ DEBUG \in BOOLEAN
    /\ blockRoot = GenesisRoot
    /\ db = << >>
    /\ tx = << >>
    /\ txState = "idle"
    /\ txCalls = 0
    /\ last = [op |-> "openDB", args |-> << >>]

Begin ==
    /\ txState = "idle"
    /\ txState' = "open"
    /\ tx' = db
    /\ txCalls' = 0
    /\ last' = [op |-> "Begin", args |-> << >>]
    /\ UNCHANGED <<DEBUG, blockRoot, db>>

\* faulty variant: the writes of a panicked transaction are committed too
Commit_EvenAfterPanic ==
    /\ txState \in {"open", "panicked"}
    /\ txState' = "idle"
    /\ db' = tx
    /\ txCalls' = 0
    /\ last' = [op |-> "Commit", args |-> << >>]
    /\ UNCHANGED <<DEBUG, blockRoot, tx>>

Commit ==
    /\ txState = "open"
    /\ txState' = "idle"
    /\ db' = tx
    /\ txCalls' = 0
    /\ last' = [op |-> "Commit", args |-> << >>]
    /\ UNCHANGED <<DEBUG, blockRoot, tx>>

Rollback ==
    /\ txState = "open"
    /\ txState' = "idle"
    /\ tx' = db
    /\ txCalls' = 0
    /\ last' = [op |-> "Rollback", args |-> << >>]
    /\ UNCHANGED <<DEBUG, blockRoot, db>>

Restart ==
    /\ txState = "panicked"
    /\ txState' = "idle"
    /\ tx' = db
    /\ blockRoot' = GenesisRoot
    /\ txCalls' = 0
    /\ last' = [op |-> "openDB", args |-> << >>]
    /\ UNCHANGED <<DEBUG, db>>

\* the effect of one accessor call inside the open transaction; the
\* consensus set initialises the database before it calls any accessor
Call(t, op, args) ==
    /\ txState = "open"
    /\ dbInitialized(tx) \/ op = "initDB"
    /\ txCalls < MaxTxCalls
    /\ txCalls' = txCalls + 1
    /\ tx' = t.s
    /\ txState' = IF t.ok THEN "open" ELSE "panicked"
    /\ last' = [op |-> op, args |-> args]
    /\ UNCHANGED <<DEBUG, db>>

InitDB ==
    /\ ~dbInitialized(tx)
    /\ Call(initDB(Ctx(tx), blockRoot), "initDB", << >>)
    /\ blockRoot' = initDBRoot(initDBBeforeChecksum(Ctx(tx), blockRoot), blockRoot)

HeightInBounds(lo, hi) ==
    HasKey(Ctx(tx), BlockHeight, BlockHeight) =>
        /\ DecInt(HeightBytes(Ctx(tx))) >= lo
        /\ DecInt(HeightBytes(Ctx(tx))) <= hi

AddBlockMap ==
    \E pb \in ProcessedBlocks :
        /\ Call(addBlockMap(Ctx(tx), pb), "addBlockMap", <<pb>>)
        /\ UNCHANGED blockRoot

\* a call of blockHeight: it panics on an unreadable or negative height
\* and changes nothing otherwise
ReadBlockHeight ==
    /\ Call(IF blockHeightPanics(tx) THEN Panic(Ctx(tx)) ELSE Ctx(tx), "blockHeight", << >>)
    /\ UNCHANGED blockRoot

PushPath ==
    \E bid \in BlockIDs :
        /\ HeightInBounds(-MaxUnderflow, MaxHeight - 1)
        /\ Call(pushPath(Ctx(tx), bid), "pushPath", <<bid>>)
        /\ UNCHANGED blockRoot

PopPath ==
    /\ HeightInBounds(1 - MaxUnderflow, MaxHeight)
    /\ Call(popPath(Ctx(tx)), "popPath", << >>)
    /\ UNCHANGED blockRoot

AddSiacoinOutput ==
    \E id \in IDs, sco \in SiacoinOutputValues :
        /\ Call(addSiacoinOutput(Ctx(tx), id, sco), "addSiacoinOutput", <<id, sco>>)
        /\ UNCHANGED blockRoot

RemoveSiacoinOutput ==
    \E id \in IDs :
        /\ Call(removeSiacoinOutput(Ctx(tx), id), "removeSiacoinOutput", <<id>>)
        /\ UNCHANGED blockRoot

AddFileContract ==
    \E id \in IDs, fc \in FileContractValues :
        /\ Call(addFileContract(Ctx(tx), id, fc), "addFileContract", <<id, fc>>)
        /\ UNCHANGED blockRoot

RemoveFileContract ==
    \E id \in IDs :
        /\ Call(removeFileContract(Ctx(tx), id), "removeFileContract", <<id>>)
        /\ UNCHANGED blockRoot

AddSiafundOutput ==
    \E id \in IDs, sfo \in SiafundOutputValues :
        /\ Call(addSiafundOutput(Ctx(tx), id, sfo), "addSiafundOutput", <<id, sfo>>)
        /\ UNCHANGED blockRoot

RemoveSiafundOutput ==
    \E id \in IDs :
        /\ Call(removeSiafundOutput(Ctx(tx), id), "removeSiafundOutput", <<id>>)
        /\ UNCHANGED blockRoot

SetSiafundPool ==
    \E c \in Pools :
        /\ Call(setSiafundPool(Ctx(tx), c), "setSiafundPool", <<c>>)
        /\ UNCHANGED blockRoot

AddDSCO ==
    \E bh \in MaturityHeights, id \in IDs, sco \in SiacoinOutputValues :
        /\ Call(addDSCO(Ctx(tx), bh, id, sco), "addDSCO", <<bh, id, sco>>)
        /\ UNCHANGED blockRoot

RemoveDSCO ==
    \E bh \in MaturityHeights, id \in IDs :
        /\ Call(removeDSCO(Ctx(tx), bh, id), "removeDSCO", <<bh, id>>)
        /\ UNCHANGED blockRoot

CreateDSCOBucket ==
    \E bh \in MaturityHeights :
        /\ Call(createDSCOBucket(Ctx(tx), bh), "createDSCOBucket", <<bh>>)
        /\ UNCHANGED blockRoot

DeleteDSCOBucket ==
    \E bh \in MaturityHeights :
        /\ Call(deleteDSCOBucket(Ctx(tx), bh), "deleteDSCOBucket", <<bh>>)
        /\ UNCHANGED blockRoot

\* a read-only call: it writes nothing, and a panic in it kills the process
Lookup(err, op, args) ==
    /\ Call(IF err = "panic" THEN Panic(Ctx(tx)) ELSE Ctx(tx), op, args)
    /\ UNCHANGED blockRoot

GetBlockMap ==
    \E id \in BlockIDs : Lookup(getBlockMap(tx, id).err, "getBlockMap", <<id>>)

IsSiacoinOutput ==
    \E id \in IDs :
        Lookup(IF SiacoinOutputs \in DOMAIN tx THEN "nil" ELSE "panic", "isSiacoinOutput", <<id>>)

GetSiacoinOutput ==
    \E id \in IDs : Lookup(getSiacoinOutput(tx, id).err, "getSiacoinOutput", <<id>>)

GetFileContract ==
    \E id \in IDs : Lookup(getFileContract(tx, id).err, "getFileContract", <<id>>)

GetSiafundOutput ==
    \E id \in IDs : Lookup(getSiafundOutput(tx, id).err, "getSiafundOutput", <<id>>)

Transaction == Begin \/ Commit \/ Rollback \/ Restart \/ InitDB

\* only the transaction that initialised the database is committed; later
\* transactions run on top of the committed genesis state
CommitGenesis == Commit /\ last.op = "initDB"

GenesisTransaction == Begin \/ CommitGenesis \/ Rollback \/ Restart \/ InitDB

NextChain == GenesisTransaction \/ AddBlockMap \/ ReadBlockHeight \/ PushPath \/ PopPath

SpecChain == Init /\ [][NextChain]_vars

NextPath == GenesisTransaction \/ ReadBlockHeight \/ PushPath \/ PopPath

SpecPath == Init /\ [][NextPath]_vars

NextLedger ==
    \/ GenesisTransaction
    \/ AddSiacoinOutput \/ RemoveSiacoinOutput
    \/ AddSiafundOutput \/ RemoveSiafundOutput \/ SetSiafundPool
    \/ AddFileContract \/ RemoveFileContract

SpecLedger == Init /\ [][NextLedger]_vars

NextContracts == Transaction \/ AddFileContract \/ RemoveFileContract

SpecContracts == Init /\ [][NextContracts]_vars

NextQueue ==
    GenesisTransaction \/ AddDSCO \/ RemoveDSCO \/ CreateDSCOBucket \/ DeleteDSCOBucket

SpecQueue == Init /\ [][NextQueue]_vars

NextDSCO ==
    \/ GenesisTransaction
    \/ AddSiacoinOutput \/ RemoveSiacoinOutput
    \/ AddDSCO \/ RemoveDSCO \/ CreateDSCOBucket \/ DeleteDSCOBucket

SpecDSCO == Init /\ [][NextDSCO]_vars

Next ==
    \/ Begin \/ CommitGenesis \/ Rollback \/ Restart \/ InitDB
    \/ AddBlockMap \/ ReadBlockHeight \/ PushPath \/ PopPath
    \/ AddSiacoinOutput \/ RemoveSiacoinOutput
    \/ AddFileContract \/ RemoveFileContract
    \/ AddSiafundOutput \/ RemoveSiafundOutput \/ SetSiafundPool
    \/ AddDSCO \/ RemoveDSCO \/ CreateDSCOBucket \/ DeleteDSCOBucket
    \/ GetBlockMap \/ IsSiacoinOutput \/ GetSiacoinOutput \/ GetFileContract \/ GetSiafundOutput

Spec == Init /\ [][Next]_vars

(***************************************************************************)
(* A store opened from an existing file (openDB, database.go:71-77): the    *)
(* file holds a genesis store with some contracts, possibly with one        *)
(* expiration marker or one expiration bucket lost.                         *)
(***************************************************************************)
GenesisStore == initDB(Ctx(<< >>), GenesisRoot).s

WindowEnds == {fc.WindowEnd : fc \in FileContractValues}

ContractWithEnd(we) == CHOOSE fc \in FileContractValues : fc.WindowEnd = we

Damages ==
    {<<"none", 0>>} \cup {<<"marker", id>> : id \in IDs} \cup {<<"bucket", we>> : we \in WindowEnds}

\* the store g with the contracts of r added (r[id] is the windowEnd of the
\* contract stored under id, 0 for none), as addFileContract leaves them,
\* less the marker or the expiration bucket named by d
ContractStore(g, r, d) ==
    LET live == {id \in IDs : r[id] # 0}
        ends == {r[id] : id \in live} \ (IF d[1] = "bucket" THEN {d[2]} ELSE {})
        lost == IF d[1] = "marker" THEN {d[2]} ELSE {}
        names == {prefix_fcex \o MarshalHeight(we) : we \in ends}
    IN  [n \in (DOMAIN g) \cup names |->
            IF n = FileContracts
            THEN [id \in live |-> MarshalFileContract(ContractWithEnd(r[id]))]
            ELSE IF n \in names
            THEN [id \in {x \in live : prefix_fcex \o MarshalHeight(r[x]) = n} \ lost |-> << >>]
            ELSE g[n]]

OpenedStores(g) ==
    {<< >>} \cup {ContractStore(g, r, d) : r \in [IDs -> {0} \cup WindowEnds], d \in Damages}

InitOpened ==
    /\ DEBUG \in BOOLEAN
    /\ blockRoot = GenesisRoot
    /\ \E g \in {GenesisStore} : db \in OpenedStores(g)
    /\ tx = << >>
    /\ txState = "idle"
    /\ txCalls = 0
    /\ last = [op |-> "openDB", args |-> << >>]

NextLookup ==
    \/ GenesisTransaction
    \/ GetBlockMap \/ IsSiacoinOutput \/ GetSiacoinOutput \/ GetFileContract \/ GetSiafundOutput
    \/ AddBlockMap \/ AddSiacoinOutput \/ RemoveSiacoinOutput
    \/ AddFileContract \/ RemoveSiafundOutput

SpecLookup == Init /\ [][NextLookup]_vars

NextMutators ==
    \/ GenesisTransaction
    \/ AddBlockMap
    \/ AddSiacoinOutput \/ RemoveSiacoinOutput
    \/ AddFileContract \/ RemoveFileContract
    \/ AddSiafundOutput \/ RemoveSiafundOutput
    \/ AddDSCO \/ RemoveDSCO \/ CreateDSCOBucket \/ DeleteDSCOBucket

SpecMutators == Init /\ [][NextMutators]_vars

NextAbort == Transaction \/ AddFileContract \/ RemoveFileContract

SpecAbort == InitOpened /\ [][NextAbort]_vars

NextInit ==
    Transaction \/ PopPath \/ SetSiafundPool \/ CreateDSCOBucket \/ DeleteDSCOBucket

SpecInit == Init /\ [][NextInit]_vars

NextOpened == GenesisTransaction \/ RemoveFileContract

SpecOpened == InitOpened /\ [][NextOpened]_vars

\* the call A made in a transaction of one call less than the other
\* specifications allow
Short(A) == txCalls < MaxTxCalls - 1 /\ A

NextFrame ==
    \/ GenesisTransaction
    \/ Short(PushPath) \/ Short(PopPath)
    \/ Short(AddSiacoinOutput) \/ Short(RemoveSiacoinOutput)
    \/ Short(AddFileContract) \/ Short(RemoveFileContract)
    \/ Short(AddSiafundOutput) \/ Short(RemoveSiafundOutput) \/ Short(SetSiafundPool)
    \/ Short(AddDSCO) \/ Short(RemoveDSCO)
    \/ Short(CreateDSCOBucket) \/ Short(DeleteDSCOBucket)

SpecFrame == Init /\ [][NextFrame]_vars

(***************************************************************************)
(* Properties.                                                              *)
(***************************************************************************)
Completed(op) == last'.op = op /\ txState' = "open"

\* C1: in a state where output id x is absent from the siacoin output set,
\* addSiacoinOutput(x, v) makes getSiacoinOutput(x) return exactly v without
\* error and isSiacoinOutput(x) true; a following removeSiacoinOutput(x)
\* makes isSiacoinOutput(x) false and getSiacoinOutput(x) return not-found.
\* The same holds for the siafund outputs.
C1_SiacoinRoundTrip ==
    (Completed("addSiacoinOutput") /\ ~isSiacoinOutput(tx, last'.args[1])) =>
        LET x == last'.args[1]
            v == last'.args[2]
            t2 == removeSiacoinOutput(Ctx(tx'), x)
        IN  /\ getSiacoinOutput(tx', x) = [sco |-> v, err |-> "nil"]
            /\ isSiacoinOutput(tx', x)
            /\ t2.ok
            /\ ~isSiacoinOutput(t2.s, x)
            /\ getSiacoinOutput(t2.s, x).err = "errNilItem"

C1_SiafundRoundTrip ==
    (Completed("addSiafundOutput") /\ getSiafundOutput(tx, last'.args[1]).err = "errNilItem") =>
        LET x == last'.args[1]
            v == last'.args[2]
            t2 == removeSiafundOutput(Ctx(tx'), x)
        IN  /\ getSiafundOutput(tx', x) = [sfo |-> v, err |-> "nil"]
            /\ t2.ok
            /\ getSiafundOutput(t2.s, x).err = "errNilItem"

C1_OutputRoundTrip == [][C1_SiacoinRoundTrip /\ C1_SiafundRoundTrip]_vars

\* an output id absent from the committed set was added by the only call of
\* the open transaction and reads back as the value that was added
C1_Witness ==
    /\ txState = "open" /\ txCalls = 1
    /\ last.op = "addSiacoinOutput" /\ last.args[1] = 2
    /\ dbInitialized(db) /\ ~isSiacoinOutput(db, 2)
    /\ getSiacoinOutput(tx, 2).sco = last.args[2]

(***************************************************************************)
(* The expiration index against the FileContracts bucket.                  *)
(***************************************************************************)
CheckedHeights == 97..101

ExpirationMarkers(s, H) ==
    IF prefix_fcex \o MarshalHeight(H) \in DOMAIN s
    THEN DOMAIN s[prefix_fcex \o MarshalHeight(H)] ELSE {}

ExpirationBuckets(s) == {n \in DOMAIN s : Len(n) = 9 /\ n[1] = prefix_fcex[1]}

\* the expiration bucket named by the decoded windowEnd of a live contract
ExpirationBucketFor(s, id) == prefix_fcex \o MarshalHeight(WindowEndOf(s[FileContracts][id]))

\* every live contract has its marker under its windowEnd, and every marker
\* of every expiration bucket belongs to a live contract with that windowEnd
ExpirationIndexConsistent(s) ==
    FileContracts \in DOMAIN s =>
        /\ \A id \in DOMAIN s[FileContracts] :
              HasKey(Ctx(s), ExpirationBucketFor(s, id), id)
        /\ \A n \in ExpirationBuckets(s) : \A id \in DOMAIN s[n] :
              id \in DOMAIN s[FileContracts] /\ ExpirationBucketFor(s, id) = n

IndexConsistentIn(d, t, st) ==
    /\ ExpirationIndexConsistent(d)
    /\ st = "open" => ExpirationIndexConsistent(t)

IndexConsistent == IndexConsistentIn(db, tx, txState)

IndexConsistentNext == IndexConsistentIn(db', tx', txState')

OverwritingAdd ==
    last'.op = "addFileContract" /\ HasKey(Ctx(tx), FileContracts, last'.args[1])

C3_PushPop ==
    [][(Completed("pushPath") /\ ~blockHeightPanics(tx)) =>
          LET h == blockHeight(tx)
              B == last'.args[1]
              t2 == popPath(Ctx(tx'))
          IN  /\ ~blockHeightPanics(tx')
              /\ blockHeight(tx') = h + 1
              /\ getPath(tx', h + 1) = [id |-> B, err |-> "nil"]
              /\ \A k \in 0..h : getPath(tx', k) = getPath(tx, k)
              /\ t2.ok
              /\ MarshalHeight(h + 1) \notin DOMAIN t2.s[BlockPath]
              /\ ~blockHeightPanics(t2.s)
              /\ blockHeight(t2.s) = h
              /\ t2.s[BlockHeight] = tx[BlockHeight]
              /\ t2.s[BlockPath] = tx[BlockPath]]_vars

\* block 1 has just been pushed on top of the committed genesis block
C3_Witness ==
    /\ txState = "open" /\ txCalls = 1 /\ last.op = "pushPath" /\ last.args[1] = 1
    /\ dbInitialized(db) /\ blockHeight(db) = 0
    /\ blockHeight(tx) = 1 /\ getPath(tx, 1).id = 1

(***************************************************************************)
(* Genesis.                                                                 *)
(***************************************************************************)
GenesisPayout == [Value |-> CalculateCoinbase(0), UnlockHash |-> BlankUnlockHash]

GenesisState(s) ==
    /\ ~blockHeightPanics(s)
    /\ blockHeight(s) = 0
    /\ getPath(s, 0) = [id |-> BlockID(GenesisRoot.Block), err |-> "nil"]
    /\ getBlockMap(s, BlockID(GenesisRoot.Block)).err = "nil"
    /\ getBlockMap(s, BlockID(GenesisRoot.Block)).pb.Block = GenesisRoot.Block
    /\ getSiafundPool(s) = [pool |-> 0, err |-> "nil"]
    /\ DOMAIN s[SiafundOutputs] =
          {GenesisSiafundOutputDiffs[i].ID : i \in DOMAIN GenesisSiafundOutputDiffs}
    /\ \A i \in DOMAIN GenesisSiafundOutputDiffs :
          getSiafundOutput(s, GenesisSiafundOutputDiffs[i].ID) =
              [sfo |-> GenesisSiafundOutputDiffs[i].SiafundOutput, err |-> "nil"]
    /\ DOMAIN s[SiacoinOutputs] = {MinerPayoutID(GenesisRoot.Block)}
    /\ getSiacoinOutput(s, MinerPayoutID(GenesisRoot.Block)) =
          [sco |-> GenesisPayout, err |-> "nil"]

\* C4: initDB on an empty store completes and, once committed, leaves a
\* store with height 0, the genesis id at height 0, the genesis block in the
\* block map, a siafund pool of 0, exactly the genesis siafund outputs, and
\* exactly one siacoin output: the genesis miner payout with a blank unlock
\* hash and the height-0 coinbase as value.
C4_Genesis ==
    [][/\ (last'.op = "initDB" /\ tx = << >>) => (txState' = "open" /\ GenesisState(tx'))
       /\ (last.op = "initDB" /\ txCalls = 1 /\ db = << >> /\ last'.op = "Commit") =>
              (db' = tx /\ GenesisState(db'))]_vars

\* the transaction that ran initDB on the empty store has been committed
C4_Witness ==
    /\ last.op = "Commit" /\ txState = "idle"
    /\ dbInitialized(db) /\ blockHeight(db) = 0
    /\ DOMAIN db[BlockPath] = {MarshalHeight(0)}
    /\ DOMAIN db[SiacoinOutputs] = {GenesisMinerPayoutID}

\* C9 as stated: in every state reached from a committed initDB by pushPath
\* and popPath calls the stored height counter decodes to a value >= 0.
C9_HeightNonNegative ==
    (dbInitialized(db) /\ txState = "open") => DecInt(HeightBytes(Ctx(tx))) >= 0

\* C10 as stated: in every state reached from a committed initDB by
\* pushPath and popPath calls the heights with an entry in the BlockPath
\* bucket are exactly 0..blockHeight().
C10_PathContiguous ==
    (dbInitialized(db) /\ txState = "open") =>
        /\ ~blockHeightPanics(tx)
        /\ DOMAIN tx[BlockPath] = {MarshalHeight(k) : k \in 0..blockHeight(tx)}

(***************************************************************************)
(* The maturation queue.                                                    *)
(***************************************************************************)
DSCOBucket(bh) == prefix_dsco \o MarshalHeight(bh)

\* the set of calls forEachDSCO makes to fn
Visited(s, bh) == {forEachDSCO(s, bh).visits[i] : i \in DOMAIN forEachDSCO(s, bh).visits}

\* forEachDSCO succeeds and calls fn once per key of the bucket
VisitsEachOnce(s, bh) ==
    LET r == forEachDSCO(s, bh)
    IN  /\ r.err = "nil"
        /\ Len(r.visits) = Cardinality(DOMAIN s[DSCOBucket(bh)])
        /\ {r.visits[i][1] : i \in DOMAIN r.visits} = DOMAIN s[DSCOBucket(bh)]

\* C5: after createDSCOBucket(H) of a height without a bucket, addDSCO(H,
\* id, out) of an id outside the siacoin output set makes forEachDSCO(H)
\* call fn exactly once, with (id, out), and after removeDSCO(H, id) it
\* calls fn not at all; in general forEachDSCO(H) visits every entry of
\* bucket H exactly once and nothing else: a completed addDSCO adds (id,
\* out) to what is visited, a completed removeDSCO takes the id away, and
\* an empty bucket is visited with no call.
C5_QueueRoundTrip ==
    [][/\ (Completed("createDSCOBucket") /\ DSCOBucket(last'.args[1]) \notin DOMAIN tx) =>
              \A id \in IDs, out \in SiacoinOutputValues :
                  ~isSiacoinOutput(tx', id) =>
                      LET H == last'.args[1]
                          t2 == addDSCO(Ctx(tx'), H, id, out)
                          t3 == removeDSCO(t2, H, id)
                      IN  /\ forEachDSCO(tx', H) = [visits |-> << >>, err |-> "nil"]
                          /\ t2.ok
                          /\ forEachDSCO(t2.s, H) = [visits |-> << <<id, out>> >>, err |-> "nil"]
                          /\ t3.ok
                          /\ forEachDSCO(t3.s, H) = [visits |-> << >>, err |-> "nil"]
       /\ Completed("addDSCO") =>
              LET H == last'.args[1]
                  id == last'.args[2]
              IN  /\ Visited(tx', H) =
                        {v \in Visited(tx, H) : v[1] # id} \cup {<<id, last'.args[3]>>}
                  /\ \A G \in MaturityHeights \ {H} :
                        DSCOBucket(G) \in DOMAIN tx => Visited(tx', G) = Visited(tx, G)
       /\ Completed("removeDSCO") =>
              LET H == last'.args[1]
              IN  Visited(tx', H) = {v \in Visited(tx, H) : v[1] # last'.args[2]}
       /\ txState' = "open" =>
              \A H \in MaturityHeights :
                  DSCOBucket(H) \in DOMAIN tx' => VisitsEachOnce(tx', H)]_vars

\* bucket 1 holds two delayed outputs, the second just added, and
\* forEachDSCO visits the two of them in key order
C5_Witness ==
    /\ txState = "open" /\ last.op = "addDSCO" /\ last.args[1] = 1 /\ last.args[2] = 2
    /\ DSCOBucket(1) \in DOMAIN tx
    /\ Len(forEachDSCO(tx, 1).visits) = 2
    /\ forEachDSCO(tx, 1).visits[2] = <<2, last.args[3]>>

\* C6 as stated: deleteDSCOBucket(H) does not succeed while bucket H still
\* holds a delayed output, so a bucket deletion never destroys one.
C6_DeleteOnlyWhenEmpty ==
    [][(last'.op = "deleteDSCOBucket"
            /\ DSCOBucket(last'.args[1]) \in DOMAIN tx
            /\ DOMAIN tx[DSCOBucket(last'.args[1])] # {}) =>
          /\ txState' = "panicked"
          /\ tx' = tx]_vars

(***************************************************************************)
(* Sanity checks of the mutators.                                           *)
(***************************************************************************)
Fatal == txState' = "panicked" /\ tx' = tx

\* C7: with the debug sanity checks enabled, adding a siacoin output,
\* siafund output or file contract that is already present is fatal, and
\* removing one that is absent is fatal; the call neither overwrites nor
\* completes as a no-op.
C7_NotIdempotent ==
    [][DEBUG =>
          /\ (last'.op = "addSiacoinOutput" /\ isSiacoinOutput(tx, last'.args[1])) => Fatal
          /\ (last'.op = "removeSiacoinOutput" /\ ~isSiacoinOutput(tx, last'.args[1])) => Fatal
          /\ (last'.op = "addSiafundOutput"
                  /\ getSiafundOutput(tx, last'.args[1]).err # "errNilItem") => Fatal
          /\ (last'.op = "removeSiafundOutput"
                  /\ getSiafundOutput(tx, last'.args[1]).err = "errNilItem") => Fatal
          /\ (last'.op = "addFileContract"
                  /\ getFileContract(tx, last'.args[1]).err # "errNilItem") => Fatal
          /\ (last'.op = "removeFileContract"
                  /\ getFileContract(tx, last'.args[1]).err = "errNilItem") => Fatal]_vars

\* the second of two removals of the same siacoin output has panicked
C7_Witness ==
    /\ DEBUG /\ txState = "panicked" /\ txCalls = 2
    /\ last.op = "removeSiacoinOutput" /\ last.args[1] = GenesisMinerPayoutID
    /\ isSiacoinOutput(db, GenesisMinerPayoutID)
    /\ ~isSiacoinOutput(tx, GenesisMinerPayoutID)

\* C8 as stated: addBlockMap is fatal when a record with the block's id
\* already exists, so a stored processed block is never overwritten with
\* different contents, initialisation included.
C8_AppendOnly ==
    [][/\ (last'.op = "addBlockMap"
              /\ getBlockMap(tx, BlockID(last'.args[1].Block)).err = "nil") => Fatal
       /\ (txState = "open" /\ txState' = "open" /\ dbInitialized(tx)) =>
              \A id \in DOMAIN tx[BlockMap] : tx'[BlockMap][id] = tx[BlockMap][id]
       /\ (last'.op = "initDB" /\ txState' = "open") =>
              LET first == initDBBeforeChecksum(Ctx(tx), blockRoot).s
              IN  \A id \in DOMAIN first[BlockMap] : tx'[BlockMap][id] = first[BlockMap][id]]_vars

(***************************************************************************)
(* Delayed outputs against the siacoin output set.                          *)
(***************************************************************************)
DSCOBuckets(s) == {n \in DOMAIN s : Len(n) = 9 /\ n[1] = prefix_dsco[1]}

\* the ids held by some delayed-output bucket
DelayedIDs(s) == UNION {DOMAIN s[n] : n \in DSCOBuckets(s)}

\* C11 as stated: after any sequence of addSiacoinOutput,
\* removeSiacoinOutput, addDSCO and removeDSCO calls that completed, no id
\* is both in the siacoin output set and in a delayed-output bucket.
C11_MutuallyExclusive ==
    (txState = "open" /\ dbInitialized(tx)) =>
        \A id \in DelayedIDs(tx) : ~isSiacoinOutput(tx, id)

(***************************************************************************)
(* removeFileContract against a missing expiration marker.                  *)
(***************************************************************************)
MarkerPresent(s, id) == HasKey(Ctx(s), ExpirationBucketFor(s, id), id)

\* C12: removeFileContract(id) of a stored contract whose marker is missing
\* from the expiration bucket named by the record's windowEnd, or whose
\* expiration bucket does not exist, is fatal in every build; a call that
\* completes found both the record and the marker and has deleted both.
C12_MissingMarkerFatal ==
    [][last'.op = "removeFileContract" =>
          LET id == last'.args[1]
              stored == HasKey(Ctx(tx), FileContracts, id)
          IN  /\ (stored /\ ~MarkerPresent(tx, id)) => txState' = "panicked"
              /\ txState' = "open" =>
                    /\ stored /\ MarkerPresent(tx, id)
                    /\ ~HasKey(Ctx(tx'), FileContracts, id)
                    /\ ~HasKey(Ctx(tx'), ExpirationBucketFor(tx, id), id)]_vars

\* without the debug checks, the removal of a stored contract whose
\* expiration bucket exists but lacks the marker has panicked
C12_Witness ==
    /\ ~DEBUG /\ txState = "panicked" /\ last.op = "removeFileContract"
    /\ HasKey(Ctx(db), FileContracts, last.args[1])
    /\ HasBucket(Ctx(db), ExpirationBucketFor(db, last.args[1]))
    /\ ~MarkerPresent(db, last.args[1])
    /\ txCalls = 1

(***************************************************************************)
(* Lookups.                                                                 *)
(***************************************************************************)
Returned == txState' = "open" /\ tx' = tx

C15_BucketExistence ==
    [][DEBUG =>
          /\ (last'.op = "createDSCOBucket" /\ DSCOBucket(last'.args[1]) \in DOMAIN tx) => Fatal
          /\ (last'.op = "createDSCOBucket" /\ DSCOBucket(last'.args[1]) \notin DOMAIN tx) =>
                /\ txState' = "open"
                /\ DOMAIN tx' = (DOMAIN tx) \cup {DSCOBucket(last'.args[1])}
                /\ tx'[DSCOBucket(last'.args[1])] = << >>
                /\ \A n \in DOMAIN tx : tx'[n] = tx[n]
          /\ (last'.op = "deleteDSCOBucket" /\ DSCOBucket(last'.args[1]) \notin DOMAIN tx) => Fatal
          /\ (last'.op = "deleteDSCOBucket" /\ DSCOBucket(last'.args[1]) \in DOMAIN tx) =>
                (txState' = "open" /\ DSCOBucket(last'.args[1]) \notin DOMAIN tx')]_vars

\* with the debug checks enabled, the second of two createDSCOBucket calls
\* for the same height has panicked
C15_Witness ==
    /\ DEBUG /\ txState = "panicked" /\ txCalls = 2 /\ last.op = "createDSCOBucket"
    /\ DSCOBucket(last.args[1]) \notin DOMAIN db
    /\ DSCOBucket(last.args[1]) \in DOMAIN tx

(***************************************************************************)
(* Existence preconditions of the mutators.                                 *)
(***************************************************************************)
\* the call op(a) made on s inserts a key that is present or removes one
\* that is absent
MutatorViolation(s, op, a) ==
    CASE op = "addBlockMap" -> HasKey(Ctx(s), BlockMap, BlockID(a[1].Block))
      [] op = "addSiacoinOutput" -> HasKey(Ctx(s), SiacoinOutputs, a[1])
      [] op = "removeSiacoinOutput" -> ~HasKey(Ctx(s), SiacoinOutputs, a[1])
      [] op = "addFileContract" -> HasKey(Ctx(s), FileContracts, a[1])
      [] op = "removeFileContract" -> ~HasKey(Ctx(s), FileContracts, a[1])
      [] op = "addSiafundOutput" -> HasKey(Ctx(s), SiafundOutputs, a[1])
      [] op = "removeSiafundOutput" -> ~HasKey(Ctx(s), SiafundOutputs, a[1])
      [] op = "addDSCO" -> HasKey(Ctx(s), DSCOBucket(a[1]), a[2])
      [] op = "removeDSCO" -> HasBucket(Ctx(s), DSCOBucket(a[1])) /\ ~HasKey(Ctx(s), DSCOBucket(a[1]), a[2])
      [] op = "createDSCOBucket" -> HasBucket(Ctx(s), DSCOBucket(a[1]))
      [] op = "deleteDSCOBucket" -> ~HasBucket(Ctx(s), DSCOBucket(a[1]))
      [] OTHER -> FALSE

Unchecked == {"addBlockMap", "removeDSCO"}

C18_InitOnce ==
    [][/\ db = << >> => ~dbInitialized(db)
       /\ last'.op = "initDB" =>
              /\ ~dbInitialized(db) /\ ~dbInitialized(tx)
              /\ txState' = "open" /\ dbInitialized(tx')
       /\ (last.op = "initDB" /\ last'.op = "Commit") => dbInitialized(db')
       /\ dbInitialized(db) => dbInitialized(db')
       /\ (dbInitialized(tx) /\ txState = "open" /\ txState' = "open") => dbInitialized(tx')
       /\ (~dbInitialized(db) /\ last'.op \in {"Rollback", "openDB"}) =>
              (~dbInitialized(db') /\ ~dbInitialized(tx'))]_vars

\* a transaction that popped below genesis, set the pool and deleted a
\* bucket has been committed on top of the committed initDB
C18_Witness ==
    /\ last.op = "Commit" /\ txState = "idle" /\ dbInitialized(db)
    /\ getSiafundPool(db).pool = 5
    /\ blockHeightPanics(db)
    /\ DSCOBuckets(db) = {}
    /\ DOMAIN db[BlockPath] = {}

(***************************************************************************)
(* The block map under pushes and pops.                                     *)
(***************************************************************************)
\* C19: pushPath and popPath leave the block map as it is: after either
\* call getBlockMap returns, for every block id, the record it returned
\* before, also for a block that has just been popped from the path.
C19_ReorgKeepsBlocks ==
    [][last'.op \in {"pushPath", "popPath"} =>
          /\ txState' = "open"
          /\ tx'[BlockMap] = tx[BlockMap]
          /\ \A id \in BlockIDs : getBlockMap(tx', id) = getBlockMap(tx, id)]_vars

\* block 1 was stored, pushed and popped again in this transaction: it is
\* off the path and its record is still returned
C19_Witness ==
    /\ txState = "open" /\ txCalls = 3 /\ last.op = "popPath"
    /\ getBlockMap(db, 1).err = "errNilItem"
    /\ getBlockMap(tx, 1).err = "nil"
    /\ getBlockMap(tx, 1).pb.Block = [Nonce |-> 1]
    /\ blockHeight(tx) = 0
    /\ MarshalHeight(1) \notin DOMAIN tx[BlockPath]

(***************************************************************************)
(* Lifecycle of a delayed-output bucket.                                    *)
(***************************************************************************)
\* one step of the open transaction seen from height H: a bucket appears
\* only by createDSCOBucket(H) and appears empty, its contents change only
\* by addDSCO(H, ..) and removeDSCO(H, ..), and it disappears only by
\* deleteDSCOBucket(H), which with drained set finds it empty
LifecycleStep(H, drained) ==
    LET b == DSCOBucket(H)
        op == last'.op
        a == last'.args
    IN  /\ (b \notin DOMAIN tx /\ b \in DOMAIN tx') =>
              (op = "createDSCOBucket" /\ a[1] = H /\ tx'[b] = << >>)
        /\ (b \in DOMAIN tx /\ b \in DOMAIN tx' /\ tx'[b] # tx[b]) =>
              (op \in {"addDSCO", "removeDSCO"} /\ a[1] = H)
        /\ (b \in DOMAIN tx /\ b \notin DOMAIN tx') =>
              (op = "deleteDSCOBucket" /\ a[1] = H /\ (drained => tx[b] = << >>))

\* the lifecycle without the condition that a deleted bucket is empty
LifecycleUpToDrain ==
    [][(txState = "open" /\ txState' \in {"open", "panicked"}) =>
          /\ (last'.op = "addDSCO" /\ DSCOBucket(last'.args[1]) \notin DOMAIN tx) =>
                txState' = "panicked"
          /\ \A H \in MaturityHeights : LifecycleStep(H, FALSE)]_vars

\* C20 as stated: addDSCO(H, ..) never succeeds while bucket H does not
\* exist, and every height goes non-existent -> created (empty) ->
\* populated -> emptied -> deleted: buckets appear empty by
\* createDSCOBucket, change by addDSCO and removeDSCO, and are deleted only
\* once emptied.
C20_Lifecycle ==
    [][(txState = "open" /\ txState' \in {"open", "panicked"}) =>
          /\ (last'.op = "addDSCO" /\ DSCOBucket(last'.args[1]) \notin DOMAIN tx) =>
                txState' = "panicked"
          /\ \A H \in MaturityHeights : LifecycleStep(H, TRUE)]_vars

(***************************************************************************)
(* Frame of the mutators: the buckets a call may write.                     *)
(***************************************************************************)
\* the bucket named n belongs to the component that the call op writes
InComponent(op, n) ==
    CASE op \in {"addSiacoinOutput", "removeSiacoinOutput"} -> n = SiacoinOutputs
      [] op \in {"addSiafundOutput", "removeSiafundOutput"} -> n = SiafundOutputs
      [] op = "setSiafundPool" -> n = SiafundPool
      [] op \in {"addFileContract", "removeFileContract"} ->
             n = FileContracts \/ SubSeq(n, 1, 1) = prefix_fcex
      [] op \in {"addDSCO", "removeDSCO", "createDSCOBucket", "deleteDSCOBucket"} ->
             SubSeq(n, 1, 1) = prefix_dsco
      [] op \in {"pushPath", "popPath"} -> n = BlockHeight \/ n = BlockPath
      [] OTHER -> TRUE

FrameOps ==
    {"addSiacoinOutput", "removeSiacoinOutput", "addSiafundOutput", "removeSiafundOutput",
     "setSiafundPool", "addFileContract", "removeFileContract", "addDSCO", "removeDSCO",
     "createDSCOBucket", "deleteDSCOBucket", "pushPath", "popPath"}

\* every bucket outside the component of op exists in both stores or in
\* neither, with the same keys and values
FrameKept(op, s, s2) ==
    \A n \in (DOMAIN s) \cup (DOMAIN s2) :
        ~InComponent(op, n) => n \in DOMAIN s /\ n \in DOMAIN s2 /\ s[n] = s2[n]

\* C21: each mutator writes only its own component: addSiacoinOutput and
\* removeSiacoinOutput only the siacoin output set, addSiafundOutput and
\* removeSiafundOutput only the siafund output set, setSiafundPool only the
\* pool scalar, addFileContract and removeFileContract only the contract
\* bucket and the expiration buckets, addDSCO, removeDSCO, createDSCOBucket
\* and deleteDSCOBucket only delayed-output buckets, pushPath and popPath
\* only the height counter and the block path; every other bucket is
\* unchanged by the call, whether it completes or panics.  getSiafundPool
\* returns 0 after genesis and the value of the latest setSiafundPool
\* afterwards: a completed set makes it return the value set, and the pool
\* bucket holds nothing but the pool.
C21_FrameIndependence ==
    [][/\ last'.op \in FrameOps => FrameKept(last'.op, tx, tx')
       /\ Completed("initDB") => getSiafundPool(tx') = [pool |-> 0, err |-> "nil"]
       /\ Completed("setSiafundPool") =>
              /\ getSiafundPool(tx') = [pool |-> last'.args[1], err |-> "nil"]
              /\ DOMAIN tx'[SiafundPool] = {SiafundPool}
       /\ (last'.op \in FrameOps \ {"setSiafundPool"} /\ SiafundPool \in DOMAIN tx) =>
              getSiafundPool(tx') = getSiafundPool(tx)]_vars

\* a transaction on the genesis store has pushed a block and set the pool
\* to a nonzero value: the pool reads back the value set, the height and
\* the path have moved, and the siacoin outputs, siafund outputs, contracts
\* and block map are still the committed ones
C21_Witness ==
    /\ txState = "open" /\ txCalls = 2 /\ dbInitialized(db)
    /\ last.op = "setSiafundPool"
    /\ getSiafundPool(db).pool = 0
    /\ getSiafundPool(tx).pool = 5
    /\ blockHeight(tx) = blockHeight(db) + 1
    /\ tx[BlockPath] # db[BlockPath]
    /\ tx[SiacoinOutputs] = db[SiacoinOutputs]
    /\ tx[SiafundOutputs] = db[SiafundOutputs]
    /\ tx[FileContracts] = db[FileContracts]
    /\ tx[BlockMap] = db[BlockMap]

(***************************************************************************)
(* Reverting a contract: addFileContract followed by removeFileContract.    *)
(***************************************************************************)
\* the step is a completed removeFileContract(c) that follows a completed
\* addFileContract(c, fc) made on the committed store, where c was absent
AddThenRemove ==
    /\ txState = "open" /\ txCalls = 1 /\ last.op = "addFileContract"
    /\ Completed("removeFileContract") /\ last'.args[1] = last.args[1]
    /\ ~HasKey(Ctx(db), FileContracts, last.args[1])

\* the expiration bucket is left by the pair of calls: it holds what it
\* held before, less the marker of id, and is empty when the add made it
ExpirationBucketLeft(s, s2, e, id) ==
    /\ e \in DOMAIN s2
    /\ DOMAIN s2[e] = (IF e \in DOMAIN s THEN DOMAIN s[e] ELSE {}) \ {id}
    /\ \A k \in DOMAIN s2[e] : s2[e][k] = s[e][k]

\* addFileContract(c, fc) and removeFileContract(c) on a store without c
\* restore every record: the buckets of the store are those it had and the
\* expiration bucket of fc.WindowEnd, every other bucket holds what it held
RevertRestoresRecords ==
    [][AddThenRemove =>
          LET e == prefix_fcex \o MarshalHeight(last.args[2].WindowEnd)
          IN  /\ DOMAIN tx' = (DOMAIN db) \cup {e}
              /\ \A n \in (DOMAIN db) \ {e} : tx'[n] = db[n]
              /\ ExpirationBucketLeft(db, tx', e, last.args[1])]_vars

\* C22 as stated: in any state where contract id c is absent,
\* addFileContract(c, fc) followed by removeFileContract(c) restores the
\* store to exactly the state before the add, the set of existing
\* expiration buckets included: no bucket created by the add is left.
C22_RevertIsInverse ==
    [][AddThenRemove => tx' = db]_vars

\* the pair of calls has been made on a committed store where the
\* expiration bucket existed already, and the store is restored exactly
C22_RestoredWhenBucketExisted ==
    /\ txState = "open" /\ txCalls = 2 /\ last.op = "removeFileContract"
    /\ \E fc \in FileContractValues :
           /\ prefix_fcex \o MarshalHeight(fc.WindowEnd) \in DOMAIN db
           /\ tx = removeFileContract(addFileContract(Ctx(db), last.args[1], fc), last.args[1]).s
    /\ ~HasKey(Ctx(db), FileContracts, last.args[1])
    /\ tx = db
====
